---- MODULE Spec2Model ----
(***************************************************************************)
(* A model of mmselfsup/datasets/module.py (DataModule) and of             *)
(* mmselfsup/models/heads/latent_heads.py (LatentPredictHead and           *)
(* LatentCrossCorrelationHead).                                            *)
(*                                                                         *)
(* The two files are independent, so each has its own specification over   *)
(* its own variables: Spec (DataModule), SpecPredict (LatentPredictHead)   *)
(* and SpecCrossCorrelation (LatentCrossCorrelationHead).  The variables   *)
(* of the other parts keep their initial values.                           *)
(***************************************************************************)
EXTENDS Integers, Sequences, FiniteSets, TLC

VARIABLES
    \* ---- DataModule (module.py) ----
    phase,          \* "new": not constructed, "constructed", "failed": __init__ raised
    args,           \* the arguments of __init__
    hparams,        \* self.hparams, saved by save_hyperparameters
    train_dataset,  \* self.train_dataset
    val_dataset,    \* self.val_dataset
    test_dataset,   \* self.test_dataset
    raised,         \* the exception the last operation raised, or NoException
    ret,            \* what the last operation returned
    ds_calls,       \* the calls made on the dataset class and its objects, in order
    n_ops,          \* DataModule methods called since construction
    op,             \* the last operation called and its argument
    \* ---- LatentPredictHead (latent_heads.py) ----
    lp_pc,          \* "idle" or "done"
    lp_in,          \* the arguments of the two compared forward calls
    lp_out,         \* what each of the two forward calls returned
    lp_log,         \* per forward call: what predictor and loss were called with
    \* ---- LatentCrossCorrelationHead (latent_heads.py) ----
    dist_size,      \* size of the initialized default process group, 0 when none
    built,          \* per process: the head is constructed
    world_size,     \* per process: self.world_size
    cc_pc,          \* per process: "idle", "all_reduce" (blocked in it), "done"
    cc_n,           \* per process: input.size(0) of the forward call
    cc_same,        \* per process: the call's input and target are the same batch
    cc_local,       \* per process: bn(input).T @ bn(target) of the call
    cc_matrix,      \* per process: cross_correlation_matrix
    cc_w,           \* per process: size of the group the call's all_reduce ran over, 0 when skipped
    cc_loss_arg,    \* per process: the matrix self.loss was called with
    cc_steps        \* forward calls started so far, over all processes

dm_vars == <<phase, args, hparams, train_dataset, val_dataset, test_dataset,
             raised, ret, ds_calls, n_ops, op>>
lp_vars == <<lp_pc, lp_in, lp_out, lp_log>>
cc_vars == <<dist_size, built, world_size, cc_pc, cc_n, cc_same, cc_local,
             cc_matrix, cc_w, cc_loss_arg, cc_steps>>
vars == <<dm_vars, lp_vars, cc_vars>>

\* ------------------------------------------------------------------------
\* Bounds
\* ------------------------------------------------------------------------
YearSpan == 3       \* years range over DefaultEndYear - YearSpan .. DefaultEndYear
MaxOps == 2         \* DataModule method calls after construction
MaxVal == 1         \* LatentPredictHead: feature values range over 0 .. MaxVal
MaxWorld == 2       \* processes the launcher starts: the size of the process group
MaxRounds == 2      \* LatentCrossCorrelationHead.forward calls started, over all processes

\* ------------------------------------------------------------------------
\* DataModule: values
\* ------------------------------------------------------------------------
None == "None"
DefaultEndYear == 2018
DefaultPredRange == 6
DefaultSubsample == 1
DefaultBatchSize == 64
DefaultNumWorkers == 0

Years == (DefaultEndYear - YearSpan)..DefaultEndYear
Datasets == {"ERA5", "era5", "CMIP6"}
Tasks == {"forecasting", "downscaling", "superresolution"}
HighresDirs == {None, "/data/highres"}

NoException == [type |-> "none", msg |-> ""]
NoDataset == [cls |-> None]
NoTransform == [kind |-> None, stats_of |-> None]
NoReturn == [kind |-> None]

ArgSets ==
    [dataset : Datasets, task : Tasks, root_highres_dir : HighresDirs,
     specify_range : BOOLEAN,
     train_start_year : Years, val_start_year : Years,
     test_start_year : Years, end_year : Years]

NoArgs == [dataset |-> None]

\* str.upper() on the dataset identifiers drawn above
Upper(s) == IF s = "era5" THEN "ERA5" ELSE s

\* range(a, b): the integers a, a+1, ..., b-1
Range(a, b) == a..(b - 1)

\* ------------------------------------------------------------------------
\* DataModule.__init__ (module.py 16-66)
\* ------------------------------------------------------------------------

\* line 45: the asserted condition
YearsOrdered(a) ==
    /\ a.end_year >= a.test_start_year
    /\ a.test_start_year > a.val_start_year
    /\ a.val_start_year > a.train_start_year

\* line 48: if(dataset != "ERA5")
DatasetUnsupportedIgnoringCase(a) == Upper(a.dataset) # "ERA5"
DatasetUnsupported(a) == a.dataset # "ERA5"

\* line 50: if task == "downscaling" and root_highres_dir is None
HighresMissingCapitalized(a) == a.task = "Downscaling" /\ a.root_highres_dir = None
HighresMissing(a) == a.task = "downscaling" /\ a.root_highres_dir = None

\* lines 45-51: the exception __init__ raises before it builds any dataset;
\* the checks in the order of the code
InitRaisesAssertLast(a) ==
    IF DatasetUnsupported(a)
    THEN [type |-> "NotImplementedError", msg |-> "Only support ERA5"]
    ELSE IF HighresMissing(a)
    THEN [type |-> "NotImplementedError",
          msg |-> "High-resolution data has to be provided for downscaling"]
    ELSE IF ~YearsOrdered(a)
    THEN [type |-> "AssertionError", msg |-> ""]
    ELSE NoException
InitRaises(a) ==
    IF ~YearsOrdered(a)
    THEN [type |-> "AssertionError", msg |-> ""]
    ELSE IF DatasetUnsupported(a)
    THEN [type |-> "NotImplementedError", msg |-> "Only support ERA5"]
    ELSE IF HighresMissing(a)
    THEN [type |-> "NotImplementedError",
          msg |-> "High-resolution data has to be provided for downscaling"]
    ELSE NoException

\* line 46: save_hyperparameters; the arguments left at their defaults
NoHparams == [batch_size |-> 0, num_workers |-> 0, pin_memory |-> FALSE, saved |-> FALSE]
SaveHparams(a) ==
    [batch_size |-> DefaultBatchSize, num_workers |-> DefaultNumWorkers,
     pin_memory |-> FALSE, saved |-> TRUE]

\* line 53
TaskString(a) == IF a.task = "forecasting" THEN "Forecasting" ELSE "Downscaling"

\* line 54
Custom(a) == IF a.specify_range = TRUE THEN "Custom" ELSE ""

\* line 55: the name eval() looks up
CallerName(a) == Upper(a.dataset) \o TaskString(a) \o Custom(a)

\* the dataset classes `from .modules import *` brings in
DatasetClasses ==
    {"ERA5Forecasting", "ERA5Downscaling",
     "ERA5ForecastingCustom", "ERA5DownscalingCustom"}

\* lines 57, 60, 64
TrainYears(a) == Range(a.train_start_year, a.val_start_year)
ValYears(a) == Range(a.val_start_year, a.test_start_year)
TestYearsOffByOne(a) == Range(a.test_start_year, a.end_year)
TestYears(a) == Range(a.test_start_year, a.end_year + 1)

\* the transforms a dataset computes from its own data: only the training
\* split computes normalization statistics
OwnTransform(split, kind) ==
    IF split = "train" THEN [kind |-> kind, stats_of |-> split] ELSE NoTransform

\* caller(root_dir, root_highres_dir, in_vars, out_vars, pred_range, years,
\*        min_lat, max_lat, min_lon, max_lon, lat_start, lon_start, subsample, split)
MakeDataset(cls, a, years, lat_start, lon_start, split) ==
    [cls |-> cls, root_dir |-> "/data", root_highres_dir |-> a.root_highres_dir,
     pred_range |-> DefaultPredRange, years |-> years,
     lat_start |-> lat_start, lon_start |-> lon_start,
     subsample |-> DefaultSubsample, split |-> split,
     inp_transform |-> OwnTransform(split, "inp"),
     out_transform |-> OwnTransform(split, "out")]

\* dataset.set_normalize(inp_normalize, out_normalize)
SetNormalize(ds, inp_normalize, out_normalize) ==
    [ds EXCEPT !.inp_transform = inp_normalize, !.out_transform = out_normalize]

\* line 58
BuildTrain(a) ==
    MakeDataset(CallerName(a), a, TrainYears(a), None, None, "train")

\* lines 61-62
BuildVal(a, train) ==
    SetNormalize(MakeDataset(CallerName(a), a, ValYears(a), None, None, "val"),
                 train.inp_transform, train.out_transform)

\* lines 65-66 (test_lat_start and test_lon_start left at their default, None)
BuildTestOwnStats(a, train) ==
    MakeDataset(CallerName(a), a, TestYears(a), None, None, "test")
BuildTest(a, train) ==
    SetNormalize(MakeDataset(CallerName(a), a, TestYears(a), None, None, "test"),
                 train.inp_transform, train.out_transform)

Call(on, method) == [on |-> on, method |-> method]
Op(name, arg) == [name |-> name, arg |-> arg]

\* the calls lines 58-66 make on the dataset class and its objects
InitCalls ==
    << Call("train", "__init__"),
       Call("val", "__init__"), Call("val", "set_normalize"),
       Call("test", "__init__"), Call("test", "set_normalize") >>

Construct(a) ==
    /\ phase = "new"
    /\ args' = a
    /\ ret' = NoReturn
    /\ n_ops' = 0
    /\ op' = Op("__init__", None)
    /\ LET e == InitRaises(a) IN
       /\ raised' = e
       /\ hparams' = IF e.type = "AssertionError" THEN NoHparams ELSE SaveHparams(a)
       /\ IF e # NoException
          THEN /\ phase' = "failed"
               /\ UNCHANGED <<train_dataset, val_dataset, test_dataset, ds_calls>>
          ELSE /\ CallerName(a) \in DatasetClasses
               /\ phase' = "constructed"
               /\ train_dataset' = BuildTrain(a)
               /\ val_dataset' = BuildVal(a, BuildTrain(a))
               /\ test_dataset' = BuildTest(a, BuildTrain(a))
               /\ ds_calls' = InitCalls
    /\ UNCHANGED <<lp_vars, cc_vars>>

\* ------------------------------------------------------------------------
\* DataModule methods (module.py 68-110)
\* ------------------------------------------------------------------------
Alive == phase = "constructed" /\ n_ops < MaxOps

\* lines 68-69
GetLatLon ==
    /\ Alive
    /\ op' = Op("get_lat_lon", None)
    /\ ret' = [kind |-> "lat_lon", of |-> train_dataset.split]
    /\ raised' = NoException
    /\ n_ops' = n_ops + 1
    /\ UNCHANGED <<phase, args, hparams, train_dataset, val_dataset, test_dataset, ds_calls>>
    /\ UNCHANGED <<lp_vars, cc_vars>>

\* lines 71-72
GetOutTransforms ==
    /\ Alive
    /\ op' = Op("get_out_transforms", None)
    /\ ret' = [kind |-> "transform", value |-> train_dataset.out_transform]
    /\ raised' = NoException
    /\ n_ops' = n_ops + 1
    /\ UNCHANGED <<phase, args, hparams, train_dataset, val_dataset, test_dataset, ds_calls>>
    /\ UNCHANGED <<lp_vars, cc_vars>>

Splits == {"train", "val", "test", "validation"}

\* lines 74-80: the dataset get_climatology dispatches to, None when it raises
ClimatologyTargetSwapped(split) ==
    IF split = "val" THEN "test" ELSE IF split = "test" THEN "val" ELSE None
ClimatologyTarget(split) ==
    IF split = "val" THEN "val" ELSE IF split = "test" THEN "test" ELSE None

\* dataset.get_climatology()
Climatology(ds) == [kind |-> "climatology", split |-> ds.split, years |-> ds.years]

GetClimatology(split) ==
    /\ Alive
    /\ op' = Op("get_climatology", split)
    /\ LET t == ClimatologyTarget(split) IN
       IF t = None
       THEN /\ raised' = [type |-> "NotImplementedError", msg |-> ""]
            /\ ret' = NoReturn
            /\ ds_calls' = ds_calls
       ELSE /\ raised' = NoException
            /\ ret' = Climatology(IF t = "val" THEN val_dataset ELSE test_dataset)
            /\ ds_calls' = Append(ds_calls, Call(t, "get_climatology"))
    /\ n_ops' = n_ops + 1
    /\ UNCHANGED <<phase, args, hparams, train_dataset, val_dataset, test_dataset>>
    /\ UNCHANGED <<lp_vars, cc_vars>>

\* DataLoader(dataset, shuffle=..., batch_size=..., num_workers=..., pin_memory=...,
\*            collate_fn=collate_fn)
DataLoader(dataset, shuffle) ==
    [kind |-> "DataLoader", dataset |-> dataset, shuffle |-> shuffle,
     batch_size |-> hparams.batch_size, num_workers |-> hparams.num_workers,
     pin_memory |-> hparams.pin_memory, collate_fn |-> "collate_fn"]

Loader(name, dataset, shuffle) ==
    /\ Alive
    /\ op' = Op(name, None)
    /\ ret' = DataLoader(dataset, shuffle)
    /\ raised' = NoException
    /\ n_ops' = n_ops + 1
    /\ UNCHANGED <<phase, args, hparams, train_dataset, val_dataset, test_dataset, ds_calls>>
    /\ UNCHANGED <<lp_vars, cc_vars>>

\* lines 82-90
TrainDataloader == Loader("train_dataloader", train_dataset, TRUE)
\* lines 92-100
ValDataloader == Loader("val_dataloader", val_dataset, FALSE)
\* lines 102-110
TestDataloader == Loader("test_dataloader", test_dataset, FALSE)

\* ------------------------------------------------------------------------
\* Specification of the DataModule
\* ------------------------------------------------------------------------
InitDM ==
    /\ phase = "new"
    /\ args = NoArgs
    /\ hparams = NoHparams
    /\ train_dataset = NoDataset
    /\ val_dataset = NoDataset
    /\ test_dataset = NoDataset
    /\ raised = NoException
    /\ ret = NoReturn
    /\ ds_calls = << >>
    /\ n_ops = 0
    /\ op = Op(None, None)

NextDM ==
    \/ \E a \in ArgSets : Construct(a)
    \/ GetLatLon
    \/ GetOutTransforms
    \/ \E split \in Splits : GetClimatology(split)
    \/ TrainDataloader
    \/ ValDataloader
    \/ TestDataloader

\* ------------------------------------------------------------------------
\* LatentPredictHead (latent_heads.py 12-46)
\* ------------------------------------------------------------------------
\* A tensor is its values and its gradient-tracking state.  Features are one
\* sample of FeatDim channels.
FeatDim == 2
Feats == [1..FeatDim -> 0..MaxVal]
Tensor(val, requires_grad) == [val |-> val, requires_grad |-> requires_grad]
Tensors == [val : Feats, requires_grad : BOOLEAN]

\* lines 27-28: the head is its built predictor and loss.  A predictor (a
\* neck) scales the features by a weight that is trainable or frozen.
Heads == [weight : {1, 2}, trainable : BOOLEAN]

\* self.predictor(xs): a neck takes a list of tensors and returns a tuple
Predictor(head, xs) ==
    << Tensor([c \in 1..FeatDim |-> head.weight * xs[1].val[c]],
              xs[1].requires_grad \/ head.trainable) >>

\* self.loss(pred, target): a scalar of the two tensors' values; autograd
\* tracks it when either argument is tracked
RECURSIVE SqDistUpTo(_, _, _)
SqDistUpTo(u, v, c) ==
    IF c = 0 THEN 0
    ELSE SqDistUpTo(u, v, c - 1) + (u[c] - v[c]) * (u[c] - v[c])
SqDist(u, v) == SqDistUpTo(u, v, FeatDim)
Loss(pred, target) ==
    [val |-> SqDist(pred.val, target.val),
     requires_grad |-> pred.requires_grad \/ target.requires_grad,
     grad_flows_to_target |-> target.requires_grad]

\* Tensor.detach(): the same values, cut from the graph
Detach(t) == [t EXCEPT !.requires_grad = FALSE]

\* lines 41-46: forward; the value returned, with what predictor and loss
\* were called with
PredictForwardNoDetach(head, input, target) ==
    LET pred == Predictor(head, <<input>>)[1]
    IN  [loss |-> Loss(pred, target),
         predictor_arg |-> <<input>>,
         pred |-> pred,
         loss_args |-> <<pred, target>>]
PredictForward(head, input, target) ==
    LET pred == Predictor(head, <<input>>)[1]
        detached == Detach(target)
    IN  [loss |-> Loss(pred, detached),
         predictor_arg |-> <<input>>,
         pred |-> pred,
         loss_args |-> <<pred, detached>>]

NoCall == [head |-> None]

\* forward called twice with the same head and input and with two targets of
\* equal values, the first not tracked and the second tracked
LPForward(head, input, tval) ==
    /\ lp_pc = "idle"
    /\ lp_pc' = "done"
    /\ lp_in' = [head |-> head, input |-> input,
                 targets |-> <<Tensor(tval, FALSE), Tensor(tval, TRUE)>>]
    /\ lp_log' = [i \in 1..2 |->
                    PredictForward(head, input, Tensor(tval, i = 2))]
    /\ lp_out' = [i \in 1..2 |->
                    PredictForward(head, input, Tensor(tval, i = 2)).loss]
    /\ UNCHANGED <<dm_vars, cc_vars>>

\* the results are dropped; the head holds no state between calls
LPReturn ==
    /\ lp_pc = "done"
    /\ lp_pc' = "idle"
    /\ lp_in' = NoCall
    /\ lp_log' = << >>
    /\ lp_out' = << >>
    /\ UNCHANGED <<dm_vars, cc_vars>>

InitLP ==
    /\ lp_pc = "idle"
    /\ lp_in = NoCall
    /\ lp_log = << >>
    /\ lp_out = << >>

NextLP ==
    \/ \E head \in Heads, input \in Tensors, tval \in Feats :
          LPForward(head, input, tval)
    \/ LPReturn

\* ------------------------------------------------------------------------
\* LatentCrossCorrelationHead (latent_heads.py 49-85): arithmetic
\* ------------------------------------------------------------------------
Procs == 1..MaxWorld

\* in_channels of the head
InChannels == 2
Channels == 1..InChannels

\* The NxC feature batches forward is called with.  BatchNorm1d in training
\* mode needs more than one sample per channel, so N >= 2.
Batches ==
    { << <<1, 1>>, <<1, 3>> >>,
      << <<1, 0>>, <<0, 2>>, <<0, 0>> >>,
      << <<0, 1>>, <<2, 2>>, <<1, 0>> >> }

Size0(x) == Len(x)

Abs(n) == IF n < 0 THEN -n ELSE n
Sign(n) == IF n < 0 THEN -1 ELSE IF n > 0 THEN 1 ELSE 0

\* the integer nearest to the square root of n >= 0
Sqrt(n) == CHOOSE r \in 0..(n + 1) : /\ r = 0 \/ (2 * r - 1) * (2 * r - 1) <= 4 * n
                                     /\ 4 * n < (2 * r + 1) * (2 * r + 1)

RECURSIVE SumTo(_, _)
\* f[1] + ... + f[n]
SumTo(f, n) == IF n = 0 THEN 0 ELSE SumTo(f, n - 1) + f[n]

\* Features after normalization are held in fixed point, in units of 1/Unit.
Unit == 8
\* BatchNorm1d's eps is 1/EpsInv
EpsInv == 100000

\* self.bn(x), nn.BatchNorm1d(in_channels, affine=False) in training mode:
\* per channel, (x - mean) / sqrt(biased variance + eps).  With
\* d[k] = N*x[k][c] - sum_k x[k][c] and ss = sum_k d[k]^2 this is
\* d[k] * sqrt(N) / sqrt(ss + N^3 * eps).
BNColumn(x, c) ==
    LET n == Size0(x)
        s == SumTo([k \in 1..n |-> x[k][c]], n)
        d == [k \in 1..n |-> n * x[k][c] - s]
        ss == SumTo([k \in 1..n |-> d[k] * d[k]], n)
    IN  [k \in 1..n |->
            Sign(d[k]) * Sqrt((Unit * Unit * d[k] * d[k] * n * EpsInv)
                              \div (ss * EpsInv + n * n * n))]

BN(x) == LET cols == [c \in Channels |-> BNColumn(x, c)]
         IN  [k \in 1..Size0(x) |-> [c \in Channels |-> cols[c][k]]]

\* a.T @ b for two NxC batches: the CxC matrix of sum_k a[k][i] * b[k][j]
MatMulT(a, b) ==
    [i \in Channels |-> [j \in Channels |->
        SumTo([k \in 1..Size0(a) |-> a[k][i] * b[k][j]], Size0(a))]]

\* line 78: self.bn(input).T @ self.bn(target)
LocalProductTargetNotNormalized(input, target) == MatMulT(BN(input), target)
LocalProduct(input, target) == MatMulT(BN(input), BN(target))

\* Matrix entries after the division are exact fractions in lowest terms.
RECURSIVE GCD(_, _)
GCD(a, b) == IF b = 0 THEN a ELSE GCD(b, a % b)
Frac(num, den) ==
    LET g == GCD(Abs(num), den)
    IN  [num |-> num \div g, den |-> den \div g]
FracAdd(r, s) == Frac(r.num * s.den + s.num * r.den, r.den * s.den)
Zero == [i \in Channels |-> [j \in Channels |-> Frac(0, 1)]]
MatAdd(a, b) == [i \in Channels |-> [j \in Channels |-> FracAdd(a[i][j], b[i][j])]]

\* line 79: cross_correlation_matrix.div_(k)
Div(m, k) == [i \in Channels |-> [j \in Channels |-> Frac(m[i][j], k)]]

RECURSIVE MatSumTo(_, _)
\* line 82: what all_reduce (sum) leaves in every participant's tensor, given
\* the tensors ms[1..w] the participants entered it with
MatSumTo(ms, w) == IF w = 0 THEN Zero ELSE MatAdd(MatSumTo(ms, w - 1), ms[w])
AllReduceSum(ms, w) == MatSumTo(ms, w)

\* ------------------------------------------------------------------------
\* LatentCrossCorrelationHead: the processes
\* ------------------------------------------------------------------------
\* torch.distributed.is_initialized() in process p
IsInitialized(p) == dist_size > 0

\* mmengine.dist.get_world_size() in process p: the group's size when a
\* group is initialized, else 1
GetWorldSize(p) == IF IsInitialized(p) THEN dist_size ELSE 1

NobodyInAllReduce == \A p \in Procs : cc_pc[p] # "all_reduce"

\* torch.distributed.init_process_group in every process: the default group
\* is all of them
InitProcessGroup ==
    /\ dist_size = 0
    /\ NobodyInAllReduce
    /\ dist_size' = MaxWorld
    /\ UNCHANGED <<built, world_size, cc_pc, cc_n, cc_same, cc_local, cc_matrix,
                   cc_w, cc_loss_arg, cc_steps>>
    /\ UNCHANGED <<dm_vars, lp_vars>>

\* torch.distributed.destroy_process_group
DestroyProcessGroup ==
    /\ dist_size > 0
    /\ NobodyInAllReduce
    /\ dist_size' = 0
    /\ UNCHANGED <<built, world_size, cc_pc, cc_n, cc_same, cc_local, cc_matrix,
                   cc_w, cc_loss_arg, cc_steps>>
    /\ UNCHANGED <<dm_vars, lp_vars>>

\* lines 60-64: __init__ in process p
CCConstruct(p) ==
    /\ ~built[p]
    /\ built' = [built EXCEPT ![p] = TRUE]
    /\ world_size' = [world_size EXCEPT ![p] = GetWorldSize(p)]
    /\ UNCHANGED <<dist_size, cc_pc, cc_n, cc_same, cc_local, cc_matrix,
                   cc_w, cc_loss_arg, cc_steps>>
    /\ UNCHANGED <<dm_vars, lp_vars>>

\* lines 78-79: the divisor
Divisor(p, input) == Size0(input) * world_size[p]

\* lines 78-85 in process p, up to the point where all_reduce blocks; all of
\* forward when no group is initialized
CCForward(p, input, target) ==
    /\ built[p]
    /\ cc_pc[p] # "all_reduce"
    /\ cc_steps < MaxRounds
    /\ Size0(input) = Size0(target)
    /\ cc_steps' = cc_steps + 1
    /\ cc_n' = [cc_n EXCEPT ![p] = Size0(input)]
    /\ cc_same' = [cc_same EXCEPT ![p] = (input = target)]
    /\ cc_local' = [cc_local EXCEPT ![p] = LocalProduct(input, target)]
    /\ cc_matrix' = [cc_matrix EXCEPT
                       ![p] = Div(LocalProduct(input, target), Divisor(p, input))]
    /\ IF IsInitialized(p)
       THEN /\ cc_pc' = [cc_pc EXCEPT ![p] = "all_reduce"]
            /\ UNCHANGED <<cc_w, cc_loss_arg>>
       ELSE /\ cc_pc' = [cc_pc EXCEPT ![p] = "done"]
            /\ cc_w' = [cc_w EXCEPT ![p] = 0]
            /\ cc_loss_arg' = [cc_loss_arg EXCEPT ![p] = cc_matrix'[p]]
    /\ UNCHANGED <<dist_size, built, world_size>>
    /\ UNCHANGED <<dm_vars, lp_vars>>

\* lines 82-85: every process of the group has entered all_reduce; it sums
\* in place and each process passes its tensor to self.loss
AllReduce ==
    /\ dist_size > 0
    /\ \A p \in Procs : cc_pc[p] = "all_reduce"
    /\ LET sum == AllReduceSum(cc_matrix, dist_size)
       IN  /\ cc_matrix' = [p \in Procs |-> sum]
           /\ cc_loss_arg' = [p \in Procs |-> sum]
           /\ cc_w' = [p \in Procs |-> dist_size]
           /\ cc_pc' = [p \in Procs |-> "done"]
    /\ UNCHANGED <<dist_size, built, world_size, cc_n, cc_same, cc_local, cc_steps>>
    /\ UNCHANGED <<dm_vars, lp_vars>>

InitCC ==
    /\ dist_size = 0
    /\ built = [p \in Procs |-> FALSE]
    /\ world_size = [p \in Procs |-> 0]
    /\ cc_pc = [p \in Procs |-> "idle"]
    /\ cc_n = [p \in Procs |-> 0]
    /\ cc_same = [p \in Procs |-> FALSE]
    /\ cc_local = [p \in Procs |-> [i \in Channels |-> [j \in Channels |-> 0]]]
    /\ cc_matrix = [p \in Procs |-> Zero]
    /\ cc_w = [p \in Procs |-> 0]
    /\ cc_loss_arg = [p \in Procs |-> Zero]
    /\ cc_steps = 0

NextCC ==
    \/ InitProcessGroup
    \/ DestroyProcessGroup
    \/ \E p \in Procs : CCConstruct(p)
    \/ \E p \in Procs : \E input \in Batches, target \in Batches :
          CCForward(p, input, target)
    \/ AllReduce

\* ------------------------------------------------------------------------
\* Specifications
\* ------------------------------------------------------------------------
Init == InitDM /\ InitLP /\ InitCC

\* DataModule
Spec == Init /\ [][NextDM]_vars

\* LatentPredictHead
SpecPredict == Init /\ [][NextLP]_vars

\* LatentCrossCorrelationHead
SpecCrossCorrelation == Init /\ [][NextCC]_vars

\* ------------------------------------------------------------------------
\* Properties of the DataModule (checked under Spec)
\* ------------------------------------------------------------------------
Attempted == phase # "new"

NothingBuilt ==
    /\ train_dataset = NoDataset
    /\ val_dataset = NoDataset
    /\ test_dataset = NoDataset
    /\ ds_calls = << >>

OrderedYears ==
    /\ args.train_start_year < args.val_start_year
    /\ args.val_start_year < args.test_start_year
    /\ args.test_start_year <= args.end_year

DownscalingClasses == {"ERA5Downscaling", "ERA5DownscalingCustom"}

\* C1: with ordered years, dataset "ERA5" and a high-resolution root whenever
\* the task is not "forecasting" (so that a downscaling class is selected),
\* __init__ raises nothing, and the train, val and test year ranges are
\* pairwise disjoint and together are exactly train_start_year..end_year.
C1_SplitsPartitionYears ==
    (/\ Attempted
     /\ OrderedYears
     /\ args.dataset = "ERA5"
     /\ (args.task # "forecasting" => args.root_highres_dir # None))
    => /\ phase = "constructed"
       /\ (op.name = "__init__" => raised = NoException)
       /\ train_dataset.years \cap val_dataset.years = {}
       /\ train_dataset.years \cap test_dataset.years = {}
       /\ val_dataset.years \cap test_dataset.years = {}
       /\ train_dataset.years \cup val_dataset.years \cup test_dataset.years
             = args.train_start_year..args.end_year

\* a construction whose test range holds two years
C1_Witness ==
    /\ phase = "constructed"
    /\ args.task = "downscaling"
    /\ Cardinality(test_dataset.years) = 2
    /\ Cardinality(train_dataset.years) >= 1

\* C2: a dataset identifier other than "ERA5" makes __init__ raise, whatever
\* the other arguments are, and no dataset is constructed.
C2_UnsupportedDatasetFails ==
    (Attempted /\ args.dataset # "ERA5")
    => /\ phase = "failed"
       /\ raised # NoException
       /\ NothingBuilt

\* "era5" with ordered years: the dataset check itself raises
C2_Witness ==
    /\ phase = "failed"
    /\ args.dataset = "era5"
    /\ OrderedYears
    /\ raised = [type |-> "NotImplementedError", msg |-> "Only support ERA5"]

\* C3: task "downscaling" with root_highres_dir None makes __init__ raise,
\* whatever the other arguments are, and no dataset is constructed.
C3_DownscalingNeedsHighres ==
    (Attempted /\ args.task = "downscaling" /\ args.root_highres_dir = None)
    => /\ phase = "failed"
       /\ raised # NoException
       /\ NothingBuilt

\* otherwise valid arguments: the high-resolution check itself raises
C3_Witness ==
    /\ phase = "failed"
    /\ args.dataset = "ERA5"
    /\ OrderedYears
    /\ args.task = "downscaling"
    /\ args.root_highres_dir = None
    /\ raised.type = "NotImplementedError"
    /\ raised.msg = "High-resolution data has to be provided for downscaling"

\* C4: get_climatology("val") returns the validation dataset's climatology,
\* get_climatology("test") the test dataset's, and every other split raises
\* NotImplementedError and calls no dataset.
C4_ClimatologyDispatch ==
    /\ [](op.name = "get_climatology" =>
            IF op.arg = "val"
            THEN /\ raised = NoException
                 /\ ret = Climatology(val_dataset)
                 /\ ds_calls[Len(ds_calls)] = Call("val", "get_climatology")
            ELSE IF op.arg = "test"
            THEN /\ raised = NoException
                 /\ ret = Climatology(test_dataset)
                 /\ ds_calls[Len(ds_calls)] = Call("test", "get_climatology")
            ELSE /\ raised.type = "NotImplementedError"
                 /\ ret = NoReturn)
    /\ [][op'.name = "get_climatology" /\ op'.arg \notin {"val", "test"}
            => ds_calls' = ds_calls]_vars

\* get_climatology("train") has raised
C4_Witness ==
    /\ op = Op("get_climatology", "train")
    /\ raised.type = "NotImplementedError"
    /\ n_ops >= 1

\* C5: years that are not ordered make __init__ fail its assertion, also
\* when the dataset is unsupported or the high-resolution root is missing.
C5_UnorderedYearsAssert ==
    (Attempted /\ ~OrderedYears)
    => /\ phase = "failed"
       /\ raised.type = "AssertionError"

\* unordered years together with an unsupported dataset
C5_Witness ==
    /\ phase = "failed"
    /\ ~OrderedYears
    /\ args.dataset # "ERA5"
    /\ raised.type = "AssertionError"

SetNormalizeCalls(on) ==
    Cardinality({i \in 1..Len(ds_calls) : ds_calls[i] = Call(on, "set_normalize")})

\* C6: after construction the validation and test datasets hold the training
\* dataset's input and output transforms, each set by one set_normalize call,
\* and no later operation changes a dataset.
C6_SharedTransforms ==
    /\ [](phase = "constructed" =>
            /\ train_dataset.inp_transform = OwnTransform("train", "inp")
            /\ train_dataset.out_transform = OwnTransform("train", "out")
            /\ val_dataset.inp_transform = train_dataset.inp_transform
            /\ val_dataset.out_transform = train_dataset.out_transform
            /\ test_dataset.inp_transform = train_dataset.inp_transform
            /\ test_dataset.out_transform = train_dataset.out_transform
            /\ SetNormalizeCalls("val") = 1
            /\ SetNormalizeCalls("test") = 1
            /\ SetNormalizeCalls("train") = 0)
    /\ [][phase = "constructed" =>
            /\ train_dataset' = train_dataset
            /\ val_dataset' = val_dataset
            /\ test_dataset' = test_dataset]_vars

\* a method has been called on a constructed DataModule
C6_Witness ==
    /\ phase = "constructed"
    /\ n_ops >= 1
    /\ test_dataset.inp_transform = [kind |-> "inp", stats_of |-> "train"]

\* C10: a construction that selected a downscaling dataset class was given a
\* high-resolution root.
C10_DownscalingHasHighres ==
    (phase = "constructed" /\ train_dataset.cls \in DownscalingClasses)
    => train_dataset.root_highres_dir # None

\* ------------------------------------------------------------------------
\* Properties of LatentPredictHead (checked under SpecPredict)
\* ------------------------------------------------------------------------
\* C9: forward returns the same loss for two targets of equal values that
\* differ in gradient tracking: the loss is called with the predictor's
\* output and the detached target, and the predictor with the input alone.
C9_LossIgnoresTargetGrad ==
    lp_pc = "done" =>
        /\ lp_in.targets[1].val = lp_in.targets[2].val
        /\ lp_in.targets[1].requires_grad # lp_in.targets[2].requires_grad
        /\ lp_out[1] = lp_out[2]
        /\ \A i \in 1..2 :
              /\ lp_log[i].predictor_arg = <<lp_in.input>>
              /\ lp_log[i].loss_args[1] = lp_log[i].pred
              /\ lp_log[i].loss_args[2].val = lp_in.targets[i].val
              /\ lp_log[i].loss_args[2].requires_grad = FALSE
              /\ ~lp_out[i].grad_flows_to_target

\* nothing but the target could make the loss tracked, and the loss is not 0
C9_Witness ==
    /\ lp_pc = "done"
    /\ ~lp_in.head.trainable
    /\ ~lp_in.input.requires_grad
    /\ lp_out[2].val > 0
    /\ ~lp_out[2].requires_grad

\* ------------------------------------------------------------------------
\* Properties of LatentCrossCorrelationHead (checked under
\* SpecCrossCorrelation)
\* ------------------------------------------------------------------------
\* every process has returned from a forward whose all_reduce ran over w
SameRound(w) == \A q \in Procs : cc_pc[q] = "done" /\ cc_w[q] = w

\* the sum over the w participants of local product / (local batch size * w)
GlobalAverage(w) ==
    MatSumTo([q \in Procs |-> Div(cc_local[q], cc_n[q] * w)], w)

\* C7: after the all_reduce over W participants each holds the sum of the
\* local products, each divided by (local batch size * W); with no group
\* initialized the matrix is the local product divided by (local batch size
\* * the world_size captured at construction).
C7_GlobalBatchAverage ==
    \A p \in Procs :
        cc_pc[p] = "done" =>
            IF cc_w[p] = 0
            THEN cc_loss_arg[p] = Div(cc_local[p], cc_n[p] * world_size[p])
            ELSE SameRound(cc_w[p]) =>
                    /\ cc_loss_arg[p] = GlobalAverage(cc_w[p])
                    /\ \A q \in Procs : cc_loss_arg[q] = cc_loss_arg[p]

Symmetric(m) == \A i, j \in Channels : m[i][j] = m[j][i]
DiagNonNegative(m) == \A i \in Channels : m[i][i].num >= 0

\* C8 as stated: whenever a process called forward with input and target the
\* same batch, the matrix it passed to the loss is symmetric with a
\* non-negative diagonal.
C8_SameBatchSymmetric ==
    \A p \in Procs :
        (cc_pc[p] = "done" /\ cc_same[p])
        => Symmetric(cc_loss_arg[p]) /\ DiagNonNegative(cc_loss_arg[p])

\* C8 amended: the matrix passed to the loss is symmetric with a non-negative
\* diagonal when input and target are the same batch in every process whose
\* matrix entered the sum: the process itself when the all_reduce is skipped,
\* every participant otherwise.
C8_AllSameBatchSymmetric ==
    \A p \in Procs :
        (/\ cc_pc[p] = "done"
         /\ IF cc_w[p] = 0
            THEN cc_same[p]
            ELSE SameRound(cc_w[p]) /\ \A q \in Procs : cc_same[q])
        => Symmetric(cc_loss_arg[p]) /\ DiagNonNegative(cc_loss_arg[p])

\* an all_reduce over same-batch calls of every process, with a non-zero sum
C8_Witness ==
    /\ SameRound(MaxWorld)
    /\ \A q \in Procs : cc_same[q]
    /\ cc_loss_arg[1][1][2].num # 0
    /\ cc_loss_arg[1][2][2].num > 0

====
